---- MODULE Spec2Model ----
(***************************************************************************)
(* WinPM (src/winpm.py): a local package manager.  One CLI command runs   *)
(* per process; every command reads and writes the files under           *)
(* %LOCALAPPDATA%/winpm.  The model keeps those files as its state and    *)
(* runs install_package, the only recursive command, as a call stack.     *)
(***************************************************************************)
EXTENDS Integers, Sequences, FiniteSets, TLC

VARIABLES
    config,         \* config.json "repositories": ordered dict, a sequence of [name, priority]
    repos_dir,      \* repositories/<repo>.json: "none" | "ok" | "corrupt" per repository name
    packages_file,  \* packages.json: function installed name -> registry entry
    install_dir,    \* packages/<name>: "absent" | "empty" | "nonempty"
    shims,          \* shims/<name>.bat: set of names
    cache_dir,      \* cache/<name>_<version>.zip: set of <<name, version>>
    stack,          \* the install_package activations of the running command, outermost first
    last,           \* the running command and what it returned, NoCmd between commands
    log             \* what the running command did so far (history)

vars == <<config, repos_dir, packages_file, install_dir, shims, cache_dir, stack, last, log>>

files == <<config, repos_dir, packages_file, install_dir, shims, cache_dir>>

(***************************************************************************)
(* Bounds and the world outside the program.                              *)
(***************************************************************************)
\* Depth of install_package activations at which Python raises RecursionError
\* (sys.getrecursionlimit(), 1000 by default), scaled down.
RecursionLimit == 4

RepoNames == {"main", "extras", "c"}

\* Package names a user may type; "ghost" is in no repository.
Names == {"app", "lib", "util", "ghost", "ping", "pong"}

NoVersion == "none"

\* --version values a user may type (NoVersion: the option is absent).
CliVersions == {NoVersion, "v1"}

\* repository.json served for each repository (§6 of the format: packages ->
\* name -> version, dependencies).  The remote contents stay fixed.
Remote(r) ==
    CASE r = "main" ->
           [app  |-> [version |-> "v1", dependencies |-> <<"lib", "ghost", "util">>],
            lib  |-> [version |-> "v1", dependencies |-> <<"util">>],
            util |-> [version |-> "v1", dependencies |-> <<>>]]
      [] r = "extras" ->
           [util |-> [version |-> "v2", dependencies |-> <<>>],
            lib  |-> [version |-> "v1", dependencies |-> <<"lib">>],
            ping |-> [version |-> "v1", dependencies |-> <<"pong">>],
            pong |-> [version |-> "v1", dependencies |-> <<"ping">>]]
      [] r = "c" ->
           [util |-> [version |-> "v2", dependencies |-> <<>>]]

NoCmd == [op |-> "none", name |-> "", ret |-> ""]

EmptyRegistry == [n \in {} |-> [version |-> "", repository |-> ""]]

(***************************************************************************)
(* ensure_directories: the state a first run creates.                     *)
(***************************************************************************)
default_config == <<[name |-> "main", priority |-> 1], [name |-> "extras", priority |-> 2]>>

Init ==
    /\ config = default_config
    /\ repos_dir = [r \in RepoNames |-> "none"]
    /\ packages_file = EmptyRegistry
    /\ install_dir = [n \in Names |-> "absent"]
    /\ shims = {}
    /\ cache_dir = {}
    /\ stack = <<>>
    /\ last = NoCmd
    /\ log = <<>>

\* No command is running.
Idle == last = NoCmd

\* The running command has returned (or an exception reached main).
Done == last # NoCmd /\ last.ret # "running"

(***************************************************************************)
(* Registry and configuration helpers.                                    *)
(***************************************************************************)
\* load_packages: the whole registry as one dict.
load_packages == packages_file

\* packages[name] = entry
DictPut(d, k, v) == [x \in (DOMAIN d) \cup {k} |-> IF x = k THEN v ELSE d[x]]

\* del packages[name]
DictDel(d, k) == [x \in (DOMAIN d) \ {k} |-> d[x]]

ConfigNames == {config[i].name : i \in 1..Len(config)}

RECURSIVE SeqWithout(_, _)
SeqWithout(s, nm) ==
    IF s = <<>> THEN <<>>
    ELSE IF Head(s).name = nm THEN SeqWithout(Tail(s), nm)
    ELSE <<Head(s)>> \o SeqWithout(Tail(s), nm)

(***************************************************************************)
(* Repository lookups.  A lookup either raises or returns a value:        *)
(* [raised |-> exception name or "none", val |-> result].                 *)
(***************************************************************************)
\* load_repository: None when the file is missing, json.load raises on a
\* corrupt file, else the manifest's "packages".
load_repository(repo_name) ==
    CASE repos_dir[repo_name] = "none"    -> [raised |-> "none", found |-> FALSE]
      [] repos_dir[repo_name] = "corrupt" -> [raised |-> "JSONDecodeError", found |-> FALSE]
      [] OTHER                            -> [raised |-> "none", found |-> TRUE]

\* One pass of find_package's loop over the repositories in the order the
\* configuration dict lists them.
RECURSIVE find_from(_, _)
find_from(i, package_name) ==
    IF i > Len(config) THEN [raised |-> "none", val |-> <<>>]
    ELSE LET repo_name == config[i].name
             repo_data == load_repository(repo_name)
         IN  IF repo_data.raised # "none" THEN [raised |-> repo_data.raised, val |-> <<>>]
             ELSE LET rest == find_from(i + 1, package_name)
                      here == IF repo_data.found /\ package_name \in DOMAIN Remote(repo_name)
                              THEN <<[version      |-> Remote(repo_name)[package_name].version,
                                      dependencies |-> Remote(repo_name)[package_name].dependencies,
                                      repository   |-> repo_name]>>
                              ELSE <<>>
                  IN  IF rest.raised # "none" THEN rest
                      ELSE [raised |-> "none", val |-> here \o rest.val]

find_package(package_name) == find_from(1, package_name)

(***************************************************************************)
(* install_package, lines 167-190: everything before the dependency loop. *)
(***************************************************************************)
NoRepo == "none"

\* resolve_dependencies: the dependencies that some repository offers, in
\* the order the descriptor lists them; the others are warned about.
RECURSIVE resolve_dependencies_strict(_)
resolve_dependencies_strict(dependencies) ==
    IF dependencies = <<>> THEN [raised |-> "none", warned |-> <<>>, val |-> <<>>]
    ELSE LET dep == Head(dependencies)
             dep_packages == find_package(dep)
         IN  IF dep_packages.raised # "none"
             THEN [raised |-> dep_packages.raised, warned |-> <<>>, val |-> <<>>]
             ELSE IF dep_packages.val = <<>>
             THEN [raised |-> "IndexError", warned |-> <<dep>>, val |-> <<>>]
             ELSE LET rest == resolve_dependencies_strict(Tail(dependencies))
                  IN  [raised |-> rest.raised, warned |-> rest.warned, val |-> <<dep>> \o rest.val]

RECURSIVE resolve_dependencies(_)
resolve_dependencies(dependencies) ==
    IF dependencies = <<>> THEN [raised |-> "none", warned |-> <<>>, val |-> <<>>]
    ELSE LET dep == Head(dependencies)
             dep_packages == find_package(dep)
         IN  IF dep_packages.raised # "none"
             THEN [raised |-> dep_packages.raised, warned |-> <<>>, val |-> <<>>]
             ELSE LET rest == resolve_dependencies(Tail(dependencies))
                  IN  IF dep_packages.val # <<>>
                      THEN [raised |-> rest.raised, warned |-> rest.warned, val |-> <<dep>> \o rest.val]
                      ELSE [raised |-> rest.raised, warned |-> <<dep>> \o rest.warned, val |-> rest.val]

\* Lines 175-187: the descriptor install_package works with.
\* [raised, found, info]; a pinned lookup returns the manifest's own dict,
\* which has no 'repository' key.
lookup(package_name, repo_name) ==
    IF repo_name # NoRepo
    THEN LET repo_data == load_repository(repo_name)
         IN  IF repo_data.raised # "none"
             THEN [raised |-> repo_data.raised, found |-> FALSE, info |-> <<>>]
             ELSE IF ~repo_data.found
             THEN [raised |-> "TypeError", found |-> FALSE, info |-> <<>>]
             ELSE IF package_name \in DOMAIN Remote(repo_name)
             THEN [raised |-> "none", found |-> TRUE,
                   info |-> [version      |-> Remote(repo_name)[package_name].version,
                             dependencies |-> Remote(repo_name)[package_name].dependencies]]
             ELSE [raised |-> "none", found |-> FALSE, info |-> <<>>]
    ELSE LET package_infos == find_package(package_name)
         IN  IF package_infos.raised # "none"
             THEN [raised |-> package_infos.raised, found |-> FALSE, info |-> <<>>]
             ELSE IF package_infos.val = <<>>
             THEN [raised |-> "none", found |-> FALSE, info |-> <<>>]
             ELSE [raised |-> "none", found |-> TRUE, info |-> package_infos.val[1]]

Event(ev, name, depth) == [ev |-> ev, name |-> name, depth |-> depth]

RECURSIVE Warnings(_, _)
Warnings(warned, depth) ==
    IF warned = <<>> THEN <<>>
    ELSE <<Event("warn", Head(warned), depth)>> \o Warnings(Tail(warned), depth)

\* Line 171: if package_name in packages
already_installed_never(packages, package_name) == FALSE

already_installed(packages, package_name) == package_name \in DOMAIN packages

\* What a call of install_package does up to its dependency loop, made at
\* depth `depth` (1 for the command itself):
\*   kind "return": it returned False (ret says why), nothing was changed;
\*   kind "raise":  an exception left it;
\*   kind "frame":  it goes on with the activation `frame`.
install_begin(package_name, version, repo_name, depth) ==
    LET packages == load_packages
        none == <<>>
    IN  IF depth > RecursionLimit
        THEN [kind |-> "raise", ret |-> "RecursionError", frame |-> none, events |-> <<>>]
        ELSE IF already_installed(packages, package_name)
        THEN [kind |-> "return", ret |-> "AlreadyInstalled", frame |-> none,
              events |-> <<Event("already", package_name, depth)>>]
        ELSE LET found == lookup(package_name, repo_name)
             IN  IF found.raised # "none"
                 THEN [kind |-> "raise", ret |-> found.raised, frame |-> none, events |-> <<>>]
                 ELSE IF ~found.found
                 THEN [kind |-> "return", ret |-> "NotFound", frame |-> none,
                       events |-> <<Event("notfound", package_name, depth)>>]
                 ELSE LET resolved == resolve_dependencies(found.info.dependencies)
                      IN  IF resolved.raised # "none"
                          THEN [kind |-> "raise", ret |-> resolved.raised, frame |-> none,
                                events |-> Warnings(resolved.warned, depth)]
                          ELSE [kind |-> "frame", ret |-> "running",
                                frame |-> [package_name |-> package_name,
                                           version      |-> version,
                                           packages     |-> packages,
                                           package_info |-> found.info,
                                           dependencies |-> resolved.val],
                                events |-> <<Event("begin", package_name, depth)>>
                                             \o Warnings(resolved.warned, depth)]

\* The command line: install <package> [--version V] [--repo R]
InstallCmd(package_name, version, repo_name) ==
    /\ Idle
    /\ LET b == install_begin(package_name, version, repo_name, 1)
           cmd == [op |-> "install", name |-> package_name, ret |-> b.ret]
       IN  /\ stack' = IF b.kind = "frame" THEN <<b.frame>> ELSE <<>>
           /\ last' = cmd
           /\ log' = b.events
    /\ UNCHANGED files

\* Lines 191-193: the next dependency of the innermost activation is
\* installed by a nested call, whose result is not looked at.
InstallDependency ==
    /\ stack # <<>>
    /\ stack[Len(stack)].dependencies # <<>>
    /\ LET top == stack[Len(stack)]
           dep == Head(top.dependencies)
           b == install_begin(dep, NoVersion, NoRepo, Len(stack) + 1)
           waiting == [stack EXCEPT ![Len(stack)].dependencies = Tail(top.dependencies)]
       IN  /\ stack' = CASE b.kind = "frame"  -> Append(waiting, b.frame)
                         [] b.kind = "return" -> waiting
                         [] OTHER             -> <<>>
           /\ last' = IF b.kind = "raise" THEN [last EXCEPT !.ret = b.ret] ELSE last
           /\ log' = log \o b.events
    /\ UNCHANGED files

(***************************************************************************)
(* install_package, lines 195-233: download, extract, register, shim.     *)
(***************************************************************************)
\* What the network and the archive do to one activation:
\*   download_failed  requests.get or raise_for_status raised: no file written
\*   download_broken  the stream broke after the cache file was opened
\*   extract_failed   ZipFile rejected the archive: nothing extracted
\*   extract_broken   extractall raised after writing some members
\*   ok               both succeeded
Outcomes == {"download_failed", "download_broken", "extract_failed", "extract_broken", "ok"}

Downloaded(outcome) == outcome \in {"extract_failed", "extract_broken", "ok"}

\* download_file: the cache file exists once open(destination, 'wb') ran.
download_file(cache, download_path, outcome) ==
    IF outcome = "download_failed" THEN cache ELSE cache \cup {download_path}

\* package_dir.mkdir(exist_ok=True)
mkdir(dir) == IF dir = "absent" THEN "empty" ELSE dir

\* Lines 207-215: the install directory after the extraction attempt.  A
\* failed extraction returns without touching the directory again.
extract_package(dir, outcome) ==
    IF outcome = "extract_failed" THEN mkdir(dir) ELSE "nonempty"

\* package_info.get('repository', 'unknown')
get_repository(package_info) ==
    IF "repository" \in DOMAIN package_info THEN package_info.repository ELSE "unknown"

\* Lines 218-227: the registry written back is this activation's own copy,
\* loaded at line 169, plus the new entry.
register_package_fresh(packages, package_name, entry) ==
    DictPut(EmptyRegistry, package_name, entry)

register_package(packages, package_name, entry) == DictPut(packages, package_name, entry)

\* create_shim
create_shim(shim_files, package_name) == shim_files \cup {package_name}

\* Lines 191-193: when a nested call returns, whatever it returned, the
\* caller goes on with its loop.
return_to_caller_strict(activations, outcome) ==
    IF outcome = "ok" THEN SubSeq(activations, 1, Len(activations) - 1) ELSE <<>>

return_to_caller(activations, outcome) == SubSeq(activations, 1, Len(activations) - 1)

ReturnValue(outcome) ==
    CASE outcome \in {"download_failed", "download_broken"} -> "DownloadFailed"
      [] outcome \in {"extract_failed", "extract_broken"}   -> "ExtractFailed"
      [] OTHER                                              -> "Ok"

InstallEvents(outcome, package_name, depth) ==
    CASE outcome \in {"download_failed", "download_broken"} ->
           <<Event("download_failed", package_name, depth)>>
      [] outcome \in {"extract_failed", "extract_broken"} ->
           <<Event("download", package_name, depth), Event("extract_failed", package_name, depth)>>
      [] OTHER ->
           <<Event("download", package_name, depth), Event("extract", package_name, depth),
             Event("register", package_name, depth)>>

\* Line 195 is reached when the loop of lines 191-193 has run out.
dependencies_done_early(activation) == TRUE

dependencies_done(activation) == activation.dependencies = <<>>

InstallFinish(outcome) ==
    /\ stack # <<>>
    /\ dependencies_done(stack[Len(stack)])
    /\ LET top == stack[Len(stack)]
           package_name == top.package_name
           version == IF top.version # NoVersion THEN top.version ELSE top.package_info.version
           download_path == <<package_name, version>>
           entry == [version |-> version, repository |-> get_repository(top.package_info)]
       IN  /\ cache_dir' = download_file(cache_dir, download_path, outcome)
           /\ install_dir' = IF Downloaded(outcome)
                             THEN [install_dir EXCEPT ![package_name] = extract_package(@, outcome)]
                             ELSE install_dir
           /\ packages_file' = IF outcome = "ok"
                               THEN register_package(top.packages, package_name, entry)
                               ELSE packages_file
           /\ shims' = IF outcome = "ok" THEN create_shim(shims, package_name) ELSE shims
           /\ stack' = return_to_caller(stack, outcome)
           /\ last' = IF stack' = <<>> THEN [last EXCEPT !.ret = ReturnValue(outcome)] ELSE last
           /\ log' = log \o InstallEvents(outcome, package_name, Len(stack))
    /\ UNCHANGED <<config, repos_dir>>

(***************************************************************************)
(* uninstall and cleanup.                                                  *)
(***************************************************************************)
\* Line 267: if package_name not in packages
not_installed_never(packages, package_name) == FALSE

not_installed(packages, package_name) == package_name \notin DOMAIN packages

\* Lines 271-279: the package directory and the shim are deleted if present.
remove_package_dir(dir) == "absent"

remove_shim_kept(shim_files, package_name) == shim_files

remove_shim(shim_files, package_name) == shim_files \ {package_name}

\* Lines 281-283
unregister_package_kept(packages, package_name) == packages

unregister_package_all(packages, package_name) == EmptyRegistry

unregister_package(packages, package_name) == DictDel(packages, package_name)

uninstall(package_name) ==
    /\ Idle
    /\ LET packages == load_packages
       IN  IF not_installed(packages, package_name)
           THEN /\ last' = [op |-> "uninstall", name |-> package_name, ret |-> "NotFound"]
                /\ UNCHANGED <<packages_file, install_dir, shims>>
           ELSE /\ install_dir' = [install_dir EXCEPT ![package_name] = remove_package_dir(@)]
                /\ shims' = remove_shim(shims, package_name)
                /\ packages_file' = unregister_package(packages, package_name)
                /\ last' = [op |-> "uninstall", name |-> package_name, ret |-> "Ok"]
    /\ UNCHANGED <<config, repos_dir, cache_dir, stack, log>>

\* cleanup: every file of the cache directory is deleted.
cleanup_shims_too ==
    /\ Idle
    /\ cache_dir' = {}
    /\ shims' = {}
    /\ last' = [op |-> "cleanup", name |-> "", ret |-> "Ok"]
    /\ UNCHANGED <<config, repos_dir, packages_file, install_dir, stack, log>>

cleanup ==
    /\ Idle
    /\ cache_dir' = {}
    /\ last' = [op |-> "cleanup", name |-> "", ret |-> "Ok"]
    /\ UNCHANGED <<config, repos_dir, packages_file, install_dir, shims, stack, log>>

(***************************************************************************)
(* Repository management.                                                  *)
(***************************************************************************)
\* What fetching repository.json does to the cached manifest:
\*   failed   requests.get or raise_for_status raised: the file is untouched
\*   badjson  the file was opened for writing, then response.json() raised
\*   ok       the manifest was written
FetchOutcomes == {"failed", "badjson", "ok"}

fetch_manifest(manifest, outcome) ==
    CASE outcome = "failed"  -> manifest
      [] outcome = "badjson" -> "corrupt"
      [] OTHER               -> "ok"

\* update (no package): update_repositories refreshes every configured
\* repository, each fetch with its own outcome; update() then only prints.
update_repositories ==
    /\ Idle
    /\ \E outcome \in [ConfigNames -> FetchOutcomes] :
          repos_dir' = [r \in RepoNames |->
                          IF r \in ConfigNames THEN fetch_manifest(repos_dir[r], outcome[r])
                          ELSE repos_dir[r]]
    /\ last' = [op |-> "update", name |-> "", ret |-> "Ok"]
    /\ UNCHANGED <<config, packages_file, install_dir, shims, cache_dir, stack, log>>

\* Lines 302-305: the new repository goes to the end of the dict with
\* priority len + 1.
new_repository(repositories, repo_name) ==
    Append(repositories, [name |-> repo_name, priority |-> Len(repositories) + 1])

add_repository(repo_name) ==
    /\ Idle
    /\ IF repo_name \in ConfigNames
       THEN /\ last' = [op |-> "repo add", name |-> repo_name, ret |-> "Exists"]
            /\ UNCHANGED <<config, repos_dir>>
       ELSE \E outcome \in FetchOutcomes :
               /\ config' = new_repository(config, repo_name)
               /\ repos_dir' = [repos_dir EXCEPT ![repo_name] = fetch_manifest(@, outcome)]
               /\ last' = [op |-> "repo add", name |-> repo_name,
                           ret |-> IF outcome = "ok" THEN "Ok" ELSE "FetchFailed"]
    /\ UNCHANGED <<packages_file, install_dir, shims, cache_dir, stack, log>>

remove_repository(repo_name) ==
    /\ Idle
    /\ IF repo_name \notin ConfigNames
       THEN /\ last' = [op |-> "repo remove", name |-> repo_name, ret |-> "NotFound"]
            /\ UNCHANGED <<config, repos_dir>>
       ELSE /\ config' = SeqWithout(config, repo_name)
            /\ repos_dir' = [repos_dir EXCEPT ![repo_name] = "none"]
            /\ last' = [op |-> "repo remove", name |-> repo_name, ret |-> "Ok"]
    /\ UNCHANGED <<packages_file, install_dir, shims, cache_dir, stack, log>>

\* main returns: the process ends, the next command starts a new one.
Exit ==
    /\ Done
    /\ last' = NoCmd
    /\ log' = <<>>
    /\ UNCHANGED <<files, stack>>

\* The package engine: installs, uninstalls and cleanups against the default
\* configuration, whose manifests `update` fetches.
Next ==
    \/ \E n \in Names, v \in CliVersions, r \in RepoNames \cup {NoRepo} : InstallCmd(n, v, r)
    \/ InstallDependency
    \/ \E outcome \in Outcomes : InstallFinish(outcome)
    \/ \E n \in Names : uninstall(n)
    \/ cleanup
    \/ update_repositories
    \/ Exit

Spec == Init /\ [][Next]_vars

\* Repository management: every 'repo add', 'repo remove' and 'update', with
\* installs of a package that several repositories offer.
RepoSpecNames == {"util", "ghost"}

NextRepos ==
    \/ \E n \in RepoSpecNames, r \in RepoNames \cup {NoRepo} : InstallCmd(n, NoVersion, r)
    \/ \E outcome \in Outcomes : InstallFinish(outcome)
    \/ \E n \in RepoSpecNames : uninstall(n)
    \/ update_repositories
    \/ \E r \in RepoNames : add_repository(r)
    \/ \E r \in RepoNames : remove_repository(r)
    \/ Exit

SpecRepos == Init /\ [][NextRepos]_vars

(***************************************************************************)
(* Properties.                                                             *)
(***************************************************************************)
LogHas(ev, name, depth) == \E i \in 1..Len(log) : log[i] = Event(ev, name, depth)

\* The running command is an install that has returned.
InstallDone == Done /\ last.op = "install"

\* Some dependency's own download or extraction failed during the command.
DependencyFailed ==
    \E i \in 1..Len(log) : log[i].depth > 1 /\ log[i].ev \in {"download_failed", "extract_failed"}

\* The command's own package got as far as its download.
RootDownloadAttempted ==
    LogHas("download", last.name, 1) \/ LogHas("download_failed", last.name, 1)

Registered(n) == n \in DOMAIN packages_file

\* The results a command's own download and extraction can end with, or the
\* RecursionError of a dependency cycle below it.
OwnResults == {"Ok", "DownloadFailed", "ExtractFailed", "RecursionError"}

\* C1: when an install returns success, the registry holds an entry for the
\* package and for every dependency that was registered during the command.
C1_DependenciesStayRegistered ==
    (InstallDone /\ last.ret = "Ok") =>
        /\ Registered(last.name)
        /\ \A i \in 1..Len(log) : log[i].ev = "register" => Registered(log[i].name)

\* C2: between commands, a name has a registry entry if and only if its
\* install directory exists, is non-empty, and its shim exists.
C2_RegistryIffFiles ==
    Idle => \A n \in Names : Registered(n) <=> (install_dir[n] = "nonempty" /\ n \in shims)

\* C3: every package that has a registry entry has an existing install
\* directory and an existing shim (shim creation always succeeds here).
C3_RegisteredHasFiles ==
    \A n \in Names : Registered(n) => (install_dir[n] # "absent" /\ n \in shims)

\* C3 witness: between commands, after an uninstall removed one package's
\* files, another package is registered and a third was left unregistered
\* with its files by a failed or overwritten install.
C3_Witness ==
    /\ Idle
    /\ \E n, m, k \in Names :
          /\ Registered(n) /\ install_dir[n] = "nonempty" /\ n \in shims
          /\ ~Registered(m) /\ install_dir[m] # "absent"
          /\ k \notin {n, m} /\ ~Registered(k) /\ install_dir[k] = "absent"
          /\ \E v \in {"v1", "v2"} : <<k, v>> \in cache_dir

\* C4: install_package of a registered name returns AlreadyInstalled at once:
\* no file, directory, shim, registry entry or cache file changes, no
\* activation is left running and nothing is downloaded.
C4_AlreadyInstalledNoEffect ==
    [][\A n \in Names, v \in CliVersions, r \in RepoNames \cup {NoRepo} :
          (Registered(n) /\ Idle /\ last'.name = n /\ InstallCmd(n, v, r)) =>
              /\ last'.ret = "AlreadyInstalled"
              /\ stack' = <<>>
              /\ log' = <<Event("already", n, 1)>>
              /\ UNCHANGED files]_vars

\* C4 witness: an install of a registered package has just been rejected.
C4_Witness ==
    /\ InstallDone /\ last.ret = "AlreadyInstalled"
    /\ Registered(last.name) /\ install_dir[last.name] = "nonempty"

\* C5: uninstall of a registered name succeeds; afterwards the name has no
\* registry entry, no install directory and no shim, and the next
\* install_package of it is not rejected as AlreadyInstalled.
C5_UninstallRemoves ==
    [][\A n \in Names :
          (Registered(n) /\ Idle /\ last'.name = n /\ uninstall(n)) =>
              /\ last'.ret = "Ok"
              /\ ~Registered(n)'
              /\ install_dir'[n] = "absent"
              /\ n \notin shims'
              /\ ~already_installed(packages_file', n)]_vars

\* C5 witness: a registered package has just been uninstalled and was
\* installed with its files before.
C5_Witness ==
    /\ Done /\ last.op = "uninstall" /\ last.ret = "Ok"
    /\ ~Registered(last.name) /\ install_dir[last.name] = "absent" /\ last.name \notin shims
    /\ \E v \in {"v1", "v2"} : <<last.name, v>> \in cache_dir

\* C6: uninstall of a name without a registry entry returns NotFound and
\* changes no file: registry, install directories, shims, cache, manifests.
C6_UninstallNotFoundNoEffect ==
    [][\A n \in Names :
          (~Registered(n) /\ Idle /\ last'.name = n /\ uninstall(n)) =>
              (last'.ret = "NotFound" /\ UNCHANGED files)]_vars

\* C6 witness: uninstall was refused for a name whose directory and shim an
\* earlier install left behind.
C6_Witness ==
    /\ Done /\ last.op = "uninstall" /\ last.ret = "NotFound"
    /\ install_dir[last.name] = "nonempty" /\ last.name \in shims

PriorityOf(repo_name) ==
    LET i == CHOOSE j \in 1..Len(config) : config[j].name = repo_name IN config[i].priority

\* C7: find_package lists its matches in ascending order of the configured
\* priority, so the first match has the lowest priority value.
C7_FindPackageByPriority ==
    \A n \in Names :
        LET found == find_package(n)
        IN  found.raised = "none" =>
                \A i, j \in 1..Len(found.val) :
                    i < j => PriorityOf(found.val[i].repository) <= PriorityOf(found.val[j].repository)

\* C8: an install whose descriptor lists a dependency that no repository
\* offers is not aborted by it: the command ends with the result of its own
\* download and extraction, and when both succeeded the package is
\* registered and has its shim.
C8_MissingDependencySkipped ==
    (InstallDone /\ \E d \in Names : LogHas("warn", d, 1)) =>
        /\ last.ret \in OwnResults
        /\ last.ret # "RecursionError" => RootDownloadAttempted
        /\ (LogHas("download", last.name, 1) /\ LogHas("extract", last.name, 1)) =>
              (last.ret = "Ok" /\ Registered(last.name) /\ last.name \in shims)

\* C8 witness: an install that warned about a missing dependency succeeded.
C8_Witness ==
    /\ InstallDone /\ LogHas("warn", "ghost", 1)
    /\ last.ret = "Ok" /\ Registered(last.name) /\ last.name \in shims

\* C9: when the install of a dependency fails at its download or its
\* extraction, the command still goes on to download its own package, and
\* when that download and extraction succeed the package is registered.
C9_DependencyFailureTolerated ==
    (InstallDone /\ DependencyFailed) =>
        /\ last.ret \in OwnResults
        /\ last.ret # "RecursionError" => RootDownloadAttempted
        /\ (LogHas("download", last.name, 1) /\ LogHas("extract", last.name, 1)) =>
              (last.ret = "Ok" /\ Registered(last.name) /\ last.name \in shims)

\* C9 witness: a dependency failed and the package itself was registered.
C9_Witness ==
    /\ InstallDone /\ DependencyFailed
    /\ last.ret = "Ok" /\ Registered(last.name) /\ last.name \in shims
    /\ \E i \in 1..Len(log) : log[i].depth > 1 /\ log[i].ev = "extract_failed"
    /\ \E i \in 1..Len(log) : log[i].depth > 1 /\ log[i].ev = "download_failed"

\* C10: after an install that failed at extraction the package is not
\* registered and no install directory exists for it.
C10_ExtractFailureRemovesDir ==
    (InstallDone /\ last.ret = "ExtractFailed") =>
        (~Registered(last.name) /\ install_dir[last.name] = "absent")

\* C11: an install that failed at its download or its extraction leaves no
\* registry entry for its package.
C11_FailedInstallNotRegistered ==
    (InstallDone /\ last.ret \in {"DownloadFailed", "ExtractFailed"}) => ~Registered(last.name)

\* C12: within one command no package is installed more than once: no two
\* successful downloads, and no two successful extractions, are of the same
\* package.
C12_InstalledAtMostOnce ==
    \A i, j \in 1..Len(log) :
        (i < j /\ log[i].ev = log[j].ev /\ log[i].ev \in {"download", "extract"})
            => log[i].name # log[j].name

\* C13: cleanup empties the download cache and changes nothing else: the
\* registry, the configuration, the manifests, the install directories and
\* the shims stay as they were.
C13_CleanupOnlyCache ==
    [][(Idle /\ last'.op = "cleanup" /\ cleanup) =>
          /\ cache_dir' = {}
          /\ UNCHANGED <<config, repos_dir, packages_file, install_dir, shims>>]_vars

\* C13 witness: cleanup has just run with a package installed: its cache
\* file is gone, its entry, directory and shim are there.
C13_Witness ==
    /\ Done /\ last.op = "cleanup" /\ cache_dir = {}
    /\ \E n \in Names : Registered(n) /\ install_dir[n] = "nonempty" /\ n \in shims

\* The manifest cached for repository r offers package n.
Offers(r, n) == repos_dir[r] = "ok" /\ n \in DOMAIN Remote(r)

\* No descriptor can be resolved for n: no configured repository offers it,
\* or the pinned repository r has no cached manifest or does not offer it
\* (manifests that cannot be parsed aside).
Unresolvable(n, r) ==
    IF r = NoRepo
    THEN \A i \in 1..Len(config) :
            repos_dir[config[i].name] # "corrupt" /\ ~Offers(config[i].name, n)
    ELSE repos_dir[r] = "none" \/ (repos_dir[r] = "ok" /\ n \notin DOMAIN Remote(r))

\* C14: install_package of an unregistered name for which no descriptor can
\* be resolved returns NotFound and changes nothing.
C14_UnresolvableIsNotFound ==
    [][\A n \in Names, v \in CliVersions, r \in RepoNames \cup {NoRepo} :
          (Idle /\ last'.name = n /\ ~Registered(n) /\ Unresolvable(n, r) /\ InstallCmd(n, v, r)) =>
              /\ last'.ret = "NotFound"
              /\ stack' = <<>>
              /\ UNCHANGED files]_vars

\* C15: install_package ends by returning, also on dependency cycles: the
\* cycle is broken, so the recursion never runs into the interpreter's limit
\* and no install command ends with RecursionError.
C15_CyclesAreBroken == last.ret # "RecursionError"

\* The step starts the download of some activation's own package.
DownloadStarts ==
    /\ stack # <<>>
    /\ Len(log') > Len(log)
    /\ log'[Len(log) + 1].ev \in {"download", "download_failed"}

\* Where the innermost activation of `name` at `depth` began in the log.
LastBegin(name, depth) ==
    CHOOSE b \in 1..Len(log) :
        /\ log[b] = Event("begin", name, depth)
        /\ \A k \in (b + 1)..Len(log) : log[k] # Event("begin", name, depth)

SeqRange(s) == {s[i] : i \in 1..Len(s)}

C17_BadManifestSkipped ==
    \A n \in Names :
        LET found == find_package(n)
        IN  /\ found.raised = "none"
            /\ \A i \in 1..Len(config) :
                  Offers(config[i].name, n) =>
                      \E k \in 1..Len(found.val) : found.val[k].repository = config[i].name

\* C18: every registry entry names as its repository a repository whose
\* manifest offers the package.
C18_EntryNamesRepository ==
    \A n \in DOMAIN packages_file :
        /\ packages_file[n].repository \in RepoNames
        /\ n \in DOMAIN Remote(packages_file[n].repository)

\* Every entry of registry `before` is in registry `after`, unchanged.
Preserved(before, after) ==
    \A n \in DOMAIN before : n \in DOMAIN after /\ after[n] = before[n]

\* C19: no step of an install command removes or alters a registry entry
\* that was there when the command began (the outermost activation's copy
\* of the registry is the registry at that moment).
C19_InstallKeepsEarlierEntries ==
    [][/\ stack # <<>> => Preserved(stack[1].packages, packages_file')
       /\ (Idle /\ last'.op = "install") =>
             (packages_file' = packages_file /\ (stack' # <<>> => stack'[1].packages = packages_file))]_vars

\* C19 witness: an install that registered a dependency and its own package
\* has returned, and a package registered by an earlier command is still
\* registered.
C19_Witness ==
    /\ InstallDone /\ last.ret = "Ok"
    /\ \E i \in 1..Len(log) : log[i].ev = "register" /\ log[i].depth = 2
    /\ \E m \in Names :
          /\ Registered(m)
          /\ \A i \in 1..Len(log) : log[i].name # m

\* C20: uninstall changes nothing of any other package (entry, install
\* directory, shim) and nothing of the cache, configuration and manifests.
C20_UninstallOnlyName ==
    [][\A n \in Names :
          (Idle /\ last'.op = "uninstall" /\ last'.name = n /\ uninstall(n)) =>
              /\ \A m \in Names \ {n} :
                    /\ Registered(m) <=> Registered(m)'
                    /\ Registered(m) => packages_file'[m] = packages_file[m]
                    /\ install_dir'[m] = install_dir[m]
                    /\ (m \in shims) <=> (m \in shims')
              /\ UNCHANGED <<cache_dir, config, repos_dir>>]_vars

\* C20 witness: util has just been uninstalled while lib, whose descriptor
\* lists util as a dependency, stays registered with its files.
C20_Witness ==
    /\ Done /\ last.op = "uninstall" /\ last.ret = "Ok" /\ last.name = "util"
    /\ Registered("lib") /\ packages_file["lib"].repository = "main"
    /\ install_dir["lib"] = "nonempty" /\ "lib" \in shims

\* C21: add_repository reports failure only if the repository was not added:
\* when 'repo add' ends with a failure (the name exists, or the manifest could
\* not be fetched), the configured repositories and the cached manifests are
\* the same as before the call.
C21_FailedAddChangesNothing ==
    [][\A r \in RepoNames :
          (Idle /\ last'.op = "repo add" /\ last'.name = r /\ last'.ret # "Ok"
                /\ add_repository(r))
              => (ConfigNames' = ConfigNames /\ repos_dir' = repos_dir)]_vars

====
